---- MODULE Spec2Model ----
(***************************************************************************)
(* Model of the ANPP codec of liban-rs: the CRC16 / header-LRC checksums,  *)
(* the framer (protocol.rs), the packet registry (packet/mod.rs) and the   *)
(* incremental stream parser (parser.rs).                                  *)
(***************************************************************************)
EXTENDS Integers, Sequences, FiniteSets, TLC

\* ------------------------------------------------------------------------
\* Bit arithmetic on fixed-width unsigned integers
\* ------------------------------------------------------------------------

RECURSIVE XorBits(_, _, _)
\* a ^ b on n-bit unsigned integers
XorBits(a, b, n) ==
    IF n = 0 THEN 0
    ELSE (IF a % 2 = b % 2 THEN 0 ELSE 1) + 2 * XorBits(a \div 2, b \div 2, n - 1)

Byte == 0..255

\* ------------------------------------------------------------------------
\* CRC-16/CCITT-FALSE (CRC_16_IBM_3740): poly 0x1021, init 0xFFFF,
\* no reflection, xorout 0
\* ------------------------------------------------------------------------

CrcPoly == 4129
CrcInit == 65535

RECURSIVE CrcShift(_, _)
\* n shift-and-conditionally-xor steps of the 16-bit register r
CrcShift(r, n) ==
    IF n = 0 THEN r
    ELSE CrcShift(IF r >= 32768 THEN XorBits((r * 2) % 65536, CrcPoly, 16)
                                ELSE r * 2, n - 1)

CrcTable == [i \in Byte |-> CrcShift(i * 256, 8)]

CrcUpdate(crc, b) ==
    XorBits((crc % 256) * 256, CrcTable[XorBits(crc \div 256, b, 8)], 16)

RECURSIVE CrcFold(_, _, _, _)
\* The register after bytes data[lo..hi], starting from crc.  The range is
\* halved and the left half is evaluated (left \in Nat) before the right
\* half starts, which keeps the evaluation shallow; bytes are taken left
\* to right.
CrcFold(crc, data, lo, hi) ==
    IF lo > hi THEN crc
    ELSE IF lo = hi THEN CrcUpdate(crc, data[lo])
    ELSE LET mid == (lo + hi) \div 2
             left == CrcFold(crc, data, lo, mid)
         IN  IF left \in Nat THEN CrcFold(left, data, mid + 1, hi) ELSE left

\* AnppProtocol::calculate_crc16 and ANPP_CRC.checksum
calculate_crc16(data) == CrcFold(CrcInit, data, 1, Len(data))

\* u16::to_le_bytes
to_le_bytes(x) == <<x % 256, x \div 256>>
\* u16::from_le_bytes
from_le_bytes(b0, b1) == b0 + 256 * b1

\* ------------------------------------------------------------------------
\* Framer (protocol.rs): create_packet / parse_packet on one delimited frame
\* ------------------------------------------------------------------------

\* create_packet writing the XOR of the four bytes as header LRC
header_lrc_xor(packet_id, length, crc16) ==
    LET crc_bytes == to_le_bytes(crc16)
    IN  XorBits(XorBits(XorBits(packet_id, length, 8), crc_bytes[1], 8), crc_bytes[2], 8)

\* create_packet writing the one's complement of the byte sum (no + 1)
header_lrc_ones(packet_id, length, crc16) ==
    LET crc_bytes == to_le_bytes(crc16)
    IN  XorBits(packet_id + length + crc_bytes[1] + crc_bytes[2], 255, 16) % 256

\* Header LRC as create_packet computes it (u16 arithmetic, then `as u8`)
header_lrc(packet_id, length, crc16) ==
    LET crc_bytes == to_le_bytes(crc16)
        v == XorBits(packet_id + length + crc_bytes[1] + crc_bytes[2], 255, 16) + 1
    IN  IF v > 255 THEN v % 256 ELSE v

\* Header LRC as validate_header recomputes it
expected_lrc(packet_id, length, crc16) ==
    LET crc_bytes == to_le_bytes(crc16)
        v == XorBits(packet_id + length + crc_bytes[1] + crc_bytes[2], 255, 16) + 1
    IN  IF v > 255 THEN v % 256 ELSE v

\* AnppHeader written little-endian: lrc, id, length, crc16 (2 bytes LE)
serialize_header(h) ==
    <<h.header_lrc, h.packet_id, h.length>> \o to_le_bytes(h.crc16)

deserialize_header(bytes) ==
    [header_lrc |-> bytes[1], packet_id |-> bytes[2], length |-> bytes[3],
     crc16 |-> from_le_bytes(bytes[4], bytes[5])]

\* create_packet refusing a 255-byte payload (>= for >)
create_packet_ge(packet_id, data) ==
    IF Len(data) >= 255
    THEN [ok |-> FALSE, err |-> "PacketTooLong", bytes |-> <<>>]
    ELSE LET length == Len(data)
             crc16 == calculate_crc16(data)
             header == [header_lrc |-> header_lrc(packet_id, length, crc16),
                        packet_id |-> packet_id, length |-> length, crc16 |-> crc16]
         IN  [ok |-> TRUE, err |-> "", bytes |-> serialize_header(header) \o data]

create_packet(packet_id, data) ==
    IF Len(data) > 255
    THEN [ok |-> FALSE, err |-> "PacketTooLong", bytes |-> <<>>]
    ELSE LET length == Len(data)
             crc16 == calculate_crc16(data)
             header == [header_lrc |-> header_lrc(packet_id, length, crc16),
                        packet_id |-> packet_id, length |-> length, crc16 |-> crc16]
         IN  [ok |-> TRUE, err |-> "", bytes |-> serialize_header(header) \o data]

NoHeader == [header_lrc |-> 0, packet_id |-> 0, length |-> 0, crc16 |-> 0]

FramerErr(e, exp, act) ==
    [ok |-> FALSE, err |-> e, expected |-> exp, actual |-> act,
     header |-> NoHeader, data |-> <<>>]

\* validate_header without the CRC16 comparison
validate_header_nocrc(header, data) ==
    IF header.length # Len(data) THEN "InvalidLength"
    ELSE IF header.header_lrc # expected_lrc(header.packet_id, header.length, header.crc16)
         THEN "HeaderLrcMismatch"
    ELSE "Ok"

validate_header(header, data) ==
    IF header.length # Len(data) THEN "InvalidLength"
    ELSE IF header.crc16 # calculate_crc16(data) THEN "InvalidChecksum"
    ELSE IF header.header_lrc # expected_lrc(header.packet_id, header.length, header.crc16)
         THEN "HeaderLrcMismatch"
    ELSE "Ok"

\* parse_packet comparing the slice length with the declared length alone
AnppProtocol_parse_packet_nohdr(packet) ==
    IF Len(packet) < 5 THEN FramerErr("TooShort", 0, 0)
    ELSE LET header == deserialize_header(SubSeq(packet, 1, 5))
             expected_length == header.length
         IN  IF Len(packet) # expected_length
             THEN FramerErr("InvalidLength", expected_length, Len(packet))
             ELSE LET data == IF header.length > 0
                              THEN SubSeq(packet, 6, expected_length) ELSE <<>>
                      v == validate_header(header, data)
                  IN  IF v # "Ok"
                      THEN FramerErr(v, header.length, Len(data))
                      ELSE [ok |-> TRUE, err |-> "", expected |-> 0, actual |-> 0,
                            header |-> header, data |-> data]

\* AnppProtocol::parse_packet
AnppProtocol_parse_packet(packet) ==
    IF Len(packet) < 5 THEN FramerErr("TooShort", 0, 0)
    ELSE LET header == deserialize_header(SubSeq(packet, 1, 5))
             expected_length == 5 + header.length
         IN  IF Len(packet) # expected_length
             THEN FramerErr("InvalidLength", expected_length, Len(packet))
             ELSE LET data == IF header.length > 0
                              THEN SubSeq(packet, 6, expected_length) ELSE <<>>
                      v == validate_header(header, data)
                  IN  IF v # "Ok"
                      THEN FramerErr(v, header.length, Len(data))
                      ELSE [ok |-> TRUE, err |-> "", expected |-> 0, actual |-> 0,
                            header |-> header, data |-> data]

\* ------------------------------------------------------------------------
\* Packet registry (packet/mod.rs, define_packets!)
\* ------------------------------------------------------------------------

\* impl From<u8> for PacketKind
PacketKind_from(id) ==
    CASE id = 0 -> "Acknowledge"
      [] id = 1 -> "Request"
      [] id = 2 -> "BootMode"
      [] id = 3 -> "DeviceInformation"
      [] id = 4 -> "RestoreFactorySettings"
      [] id = 5 -> "Reset"
      [] id = 11 -> "IpConfiguration"
      [] id = 20 -> "SystemState"
      [] id = 21 -> "UnixTime"
      [] id = 23 -> "Status"
      [] id = 26 -> "EulerOrientationStdDev"
      [] id = 28 -> "RawSensors"
      [] id = 180 -> "PacketTimerPeriod"
      [] id = 181 -> "PacketsPeriod"
      [] id = 185 -> "InstallationAlignment"
      [] id = 186 -> "FilterOptions"
      [] id = 192 -> "OdometerConfiguration"
      [] id = 193 -> "SetZeroOrientationAlignment"
      [] id = 194 -> "ReferencePointOffsets"
      [] id = 202 -> "IpDataportsConfiguration"
      [] OTHER -> "Unsupported"

\* PacketKind::byte_length: Option<usize> as a set, {} = None, {n} = Some(n)
byte_length(kind) ==
    CASE kind = "Acknowledge" -> {4}
      [] kind = "Request" -> {1}
      [] kind = "BootMode" -> {1}
      [] kind = "DeviceInformation" -> {24}
      [] kind = "RestoreFactorySettings" -> {4}
      [] kind = "Reset" -> {4}
      [] kind = "IpConfiguration" -> {30}
      [] kind = "SystemState" -> {100}
      [] kind = "UnixTime" -> {8}
      [] kind = "Status" -> {4}
      [] kind = "EulerOrientationStdDev" -> {12}
      [] kind = "RawSensors" -> {48}
      [] kind = "PacketTimerPeriod" -> {4}
      [] kind = "PacketsPeriod" -> {}
      [] kind = "InstallationAlignment" -> {73}
      [] kind = "FilterOptions" -> {17}
      [] kind = "OdometerConfiguration" -> {8}
      [] kind = "SetZeroOrientationAlignment" -> {1}
      [] kind = "ReferencePointOffsets" -> {13}
      [] kind = "IpDataportsConfiguration" -> {30}
      [] OTHER -> {}

\* Number of bytes the binrw struct of each fixed-layout kind reads
StructSize(kind) ==
    CASE kind = "Acknowledge" -> 1 + 2 + 1
      [] kind = "Request" -> 1
      [] kind = "BootMode" -> 1
      [] kind = "DeviceInformation" -> 6 * 4
      [] kind = "RestoreFactorySettings" -> 4
      [] kind = "Reset" -> 4
      [] kind = "IpConfiguration" -> 2 + 7 * 4
      [] kind = "SystemState" -> 2 + 2 + 4 + 4 + 3 * 8 + 16 * 4
      [] kind = "UnixTime" -> 4 + 4
      [] kind = "Status" -> 2 + 2
      [] kind = "EulerOrientationStdDev" -> 3 * 4
      [] kind = "RawSensors" -> 12 * 4
      [] kind = "PacketTimerPeriod" -> 1 + 1 + 2
      [] kind = "InstallationAlignment" -> 1 + 9 * 4 + 3 * 12
      [] kind = "FilterOptions" -> 9 + 8
      [] kind = "OdometerConfiguration" -> 1 + 1 + 2 + 4
      [] kind = "SetZeroOrientationAlignment" -> 1
      [] kind = "ReferencePointOffsets" -> 1 + 4 * 12
      [] kind = "IpDataportsConfiguration" -> 2 + 4 * 7

\* #[brw(repr = u8)] enums: the raw values binrw accepts
VehicleType == 0..14
IpDataportMode == {0, 2, 3, 4}

\* repr(u8) enums accepting every raw value
EnumFieldsOk_any(kind, data) == TRUE

\* Enum-typed bytes of a payload that binrw rejects
EnumFieldsOk(kind, data) ==
    CASE kind = "FilterOptions" -> data[2] \in VehicleType
      [] kind = "IpDataportsConfiguration" ->
            \A i \in 0..3 : data[2 + 7 * i + 7] \in IpDataportMode
      [] OTHER -> TRUE

\* Bitwise AND of two n-bit numbers
AndBits(a, b, n) ==
    LET RECURSIVE f(_, _, _)
        f(x, y, k) == IF k = 0 THEN 0
                      ELSE ((x % 2) * (y % 2)) + 2 * f(x \div 2, y \div 2, k - 1)
    IN  f(a, b, n)

\* SystemStatusFlags::all().bits() and FilterStatusFlags::all().bits():
\* both declare all sixteen bits
SystemStatusFlags_all == 65535
FilterStatusFlags_all == 65535

\* Flags::from_bits_truncate
from_bits_truncate(bits, all) == AndBits(bits, all, 16)

Reverse(q) == [i \in 1..Len(q) |-> q[Len(q) + 1 - i]]

Rep(n, t) == [i \in 1..n |-> t]

\* Field types of each wire struct, in declaration order
Layout(kind) ==
    CASE kind = "Acknowledge" -> <<"u8", "u16", "u8">>
      [] kind = "Request" -> <<"u8">>
      [] kind = "BootMode" -> <<"u8">>
      [] kind = "DeviceInformation" -> Rep(6, "u32")
      [] kind = "RestoreFactorySettings" -> <<"u32">>
      [] kind = "Reset" -> <<"u32">>
      [] kind = "IpConfiguration" -> <<"u8", "u8">> \o Rep(7, "u32")
      [] kind = "SystemState" ->
            <<"SystemStatusFlags", "FilterStatusFlags", "u32", "u32">>
            \o Rep(3, "f64") \o Rep(16, "f32")
      [] kind = "UnixTime" -> <<"u32", "u32">>
      [] kind = "Status" -> <<"SystemStatusFlags", "FilterStatusFlags">>
      [] kind = "EulerOrientationStdDev" -> Rep(3, "f32")
      [] kind = "RawSensors" -> Rep(12, "f32")
      [] kind = "PacketTimerPeriod" -> <<"u8", "u8", "u16">>
      [] kind = "InstallationAlignment" -> <<"u8">> \o Rep(9, "f32") \o Rep(9, "f32")
      [] kind = "FilterOptions" ->
            <<"u8", "VehicleType", "u8", "u8", "u8", "u8", "u8", "u8", "u8">>
            \o Rep(8, "u8")
      [] kind = "OdometerConfiguration" -> <<"u8", "u8", "u16", "f32">>
      [] kind = "SetZeroOrientationAlignment" -> <<"u8">>
      [] kind = "ReferencePointOffsets" -> <<"u8">> \o Rep(12, "f32")
      [] kind = "IpDataportsConfiguration" ->
            <<"u16">> \o <<"u32", "u16", "IpDataportMode">>
                      \o <<"u32", "u16", "IpDataportMode">>
                      \o <<"u32", "u16", "IpDataportMode">>
                      \o <<"u32", "u16", "IpDataportMode">>

\* Number of bytes a field of each type occupies on the wire
Width(t) ==
    CASE t \in {"u8", "VehicleType", "IpDataportMode"} -> 1
      [] t \in {"u16", "SystemStatusFlags", "FilterStatusFlags"} -> 2
      [] t \in {"u32", "f32"} -> 4
      [] t = "f64" -> 8

\* Number of bytes the first n fields of a layout occupy
RECURSIVE Offset(_, _)
Offset(layout, n) ==
    IF n = 0 THEN 0 ELSE Offset(layout, n - 1) + Width(layout[n])

\* Number of 5-byte entries the PacketsPeriod parse_with loop reads from a
\* payload holding only its first entry
EntryCount_first(data) ==
    IF Len(data) - 2 >= 5 THEN 1 ELSE 0

\* Number of 5-byte entries the PacketsPeriod parse_with loop reads:
\* PacketPeriodEntry::read_le succeeds while 5 bytes remain
EntryCount(data) == (Len(data) - 2) \div 5

\* PacketsPeriodPacket with n entries
PacketsPeriodLayout(n) ==
    <<"u8", "u8">> \o [i \in 1..(2 * n) |-> IF i % 2 = 1 THEN "u8" ELSE "u32"]

\* A field value is its bit pattern as a base-256 numeral, most significant
\* digit first (u32, f32 and f64 patterns exceed TLC's 32-bit integers).

\* BinWrite of one field writing the most significant byte first
write_field_be(t, v) == v

\* BinWrite of one field, little-endian
write_field(t, v) ==
    CASE t = "SystemStatusFlags" -> to_le_bytes(from_le_bytes(v[2], v[1]))
      [] t = "FilterStatusFlags" -> to_le_bytes(from_le_bytes(v[2], v[1]))
      [] OTHER -> Reverse(v)

\* BinRead of one field, little-endian, from exactly Width(t) bytes
read_field(t, bytes) ==
    CASE t = "SystemStatusFlags" ->
            Reverse(to_le_bytes(from_bits_truncate(from_le_bytes(bytes[1], bytes[2]),
                                                   SystemStatusFlags_all)))
      [] t = "FilterStatusFlags" ->
            Reverse(to_le_bytes(from_bits_truncate(from_le_bytes(bytes[1], bytes[2]),
                                                   FilterStatusFlags_all)))
      [] OTHER -> Reverse(bytes)

\* read_le of a struct with the given layout
read_le(layout, data) ==
    [i \in 1..Len(layout) |->
        read_field(layout[i],
                   SubSeq(data, Offset(layout, i - 1) + 1, Offset(layout, i)))]

\* write_le of a struct with the given layout
RECURSIVE write_le(_, _, _)
write_le(layout, fields, n) ==
    IF n = 0 THEN <<>>
    ELSE write_le(layout, fields, n - 1) \o write_field(layout[n], fields[n])

\* AnppPacket::from_bytes: read_le of the kind's struct from a cursor over
\* data; bytes after the struct are left unread.  PacketsPeriod reads
\* two bytes and then 5-byte entries until a read fails.  The decoded
\* packet holds one value per field; Unsupported holds the raw Vec<u8>.
from_bytes(packet_id, data) ==
    LET kind == PacketKind_from(packet_id)
    IN  IF kind = "Unsupported"
        THEN [ok |-> TRUE, packet |-> [kind |-> kind, data |-> <<data>>]]
        ELSE IF kind = "PacketsPeriod"
        THEN IF Len(data) < 2
             THEN [ok |-> FALSE, packet |-> [kind |-> kind, data |-> <<>>]]
             ELSE [ok |-> TRUE,
                   packet |-> [kind |-> kind,
                               data |-> read_le(PacketsPeriodLayout(EntryCount(data)),
                                                data)]]
        ELSE IF Len(data) < StructSize(kind) \/ ~EnumFieldsOk(kind, data)
             THEN [ok |-> FALSE, packet |-> [kind |-> kind, data |-> <<>>]]
             ELSE [ok |-> TRUE,
                   packet |-> [kind |-> kind, data |-> read_le(Layout(kind), data)]]

\* to_bytes writing a PacketsPeriod value with an entry count in front
to_bytes_counted(packet) ==
    IF packet.kind = "Unsupported" THEN packet.data[1]
    ELSE IF packet.kind = "PacketsPeriod"
    THEN <<(Len(packet.data) - 2) \div 2>>
         \o write_le(PacketsPeriodLayout((Len(packet.data) - 2) \div 2),
                     packet.data, Len(packet.data))
    ELSE write_le(Layout(packet.kind), packet.data, Len(packet.data))

\* AnppPacket::to_bytes
to_bytes(packet) ==
    IF packet.kind = "Unsupported" THEN packet.data[1]
    ELSE IF packet.kind = "PacketsPeriod"
    THEN write_le(PacketsPeriodLayout((Len(packet.data) - 2) \div 2),
                  packet.data, Len(packet.data))
    ELSE write_le(Layout(packet.kind), packet.data, Len(packet.data))

\* AnppPacket::packet_id
packet_id_of(kind) ==
    CASE kind = "Acknowledge" -> 0
      [] kind = "Request" -> 1
      [] kind = "BootMode" -> 2
      [] kind = "DeviceInformation" -> 3
      [] kind = "RestoreFactorySettings" -> 4
      [] kind = "Reset" -> 5
      [] kind = "IpConfiguration" -> 11
      [] kind = "SystemState" -> 20
      [] kind = "UnixTime" -> 21
      [] kind = "Status" -> 23
      [] kind = "EulerOrientationStdDev" -> 26
      [] kind = "RawSensors" -> 28
      [] kind = "PacketTimerPeriod" -> 180
      [] kind = "PacketsPeriod" -> 181
      [] kind = "InstallationAlignment" -> 185
      [] kind = "FilterOptions" -> 186
      [] kind = "OdometerConfiguration" -> 192
      [] kind = "SetZeroOrientationAlignment" -> 193
      [] kind = "ReferencePointOffsets" -> 194
      [] kind = "IpDataportsConfiguration" -> 202
      [] kind = "Unsupported" -> 255

\* Verification codes, as base-256 numerals: 0x21057A7E and 0x85429E1C
RESET_VERIFICATION == <<33, 5, 122, 126>>
RESTORE_VERIFICATION == <<133, 66, 158, 28>>

\* ResetPacket::new and RestoreFactorySettingsPacket::new
ResetPacket_new == [kind |-> "Reset", data |-> <<RESET_VERIFICATION>>]
RestoreFactorySettingsPacket_new ==
    [kind |-> "RestoreFactorySettings", data |-> <<RESTORE_VERIFICATION>>]

\* impl From<Reset> for ResetPacket, From<RestoreFactorySettings> for
\* RestoreFactorySettingsPacket, From<SetZeroOrientationAlignment> for
\* SetZeroOrientationAlignmentPacket (permanent: bool as u8)
From_Reset == ResetPacket_new
From_RestoreFactorySettings == RestoreFactorySettingsPacket_new
From_SetZeroOrientationAlignment(permanent) ==
    [kind |-> "SetZeroOrientationAlignment",
     data |-> <<(<<IF permanent THEN 1 ELSE 0>>)>>]

\* ------------------------------------------------------------------------
\* Filter status (packet/flags.rs, packet/state.rs)
\* ------------------------------------------------------------------------

\* Bitwise OR of two n-bit numbers
OrBits(a, b, n) ==
    LET RECURSIVE f(_, _, _)
        f(x, y, k) == IF k = 0 THEN 0
                      ELSE (IF (x % 2) + (y % 2) > 0 THEN 1 ELSE 0)
                           + 2 * f(x \div 2, y \div 2, k - 1)
    IN  f(a, b, n)

\* FilterStatusFlags::GNSS_FIX_TYPE_MASK = 0x0070
GNSS_FIX_TYPE_MASK == 112

\* The single-bit constants of FilterStatusFlags, named after the
\* FilterStatus field each one feeds, in declaration order
FilterStatusBits ==
    << <<"orientation_filter_initialised", 1>>,
       <<"navigation_filter_initialised", 2>>,
       <<"heading_initialised", 4>>,
       <<"utc_time_initialised", 8>>,
       <<"event1_flag", 128>>,
       <<"event2_flag", 256>>,
       <<"internal_gnss_enabled", 512>>,
       <<"dual_antenna_heading_active", 1024>>,
       <<"velocity_heading_enabled", 2048>>,
       <<"atmospheric_altitude_enabled", 4096>>,
       <<"external_position_active", 8192>>,
       <<"external_velocity_active", 16384>>,
       <<"external_heading_active", 32768>> >>

BoolFields == {FilterStatusBits[i][1] : i \in DOMAIN FilterStatusBits}

BitOf(field) ==
    LET i == CHOOSE j \in DOMAIN FilterStatusBits : FilterStatusBits[j][1] = field
    IN  FilterStatusBits[i][2]

\* Flags::contains
contains(bits, flag) == AndBits(bits, flag, 16) = flag

\* A gnss_fix_type that leaves the masked bits where they are
gnss_fix_type_noshift(bits) == AndBits(bits, GNSS_FIX_TYPE_MASK, 16) % 256

\* FilterStatusFlags::gnss_fix_type: ((bits & MASK) >> 4) as u8
gnss_fix_type(bits) == (AndBits(bits, GNSS_FIX_TYPE_MASK, 16) \div 16) % 256

\* enum GnssFixType, the variant with discriminant d at index d + 1
GnssFixType ==
    <<"NoFix", "Fix2D", "Fix3D", "SbassFix", "DifferentialFix", "OmnistarFix",
      "RtkFloat", "RtkFixed">>

\* GnssFixType as u16
GnssFixType_as_u16(fix) == (CHOOSE i \in DOMAIN GnssFixType : GnssFixType[i] = fix) - 1

\* impl From<FilterStatusFlags> for FilterStatus
FilterStatus_from(bits) ==
    LET g == gnss_fix_type(bits)
    IN  [gnss_fix_type |-> IF g \in 0..7 THEN GnssFixType[g + 1] ELSE "NoFix",
         flag |-> [f \in BoolFields |-> contains(bits, BitOf(f))]]

\* impl From<FilterStatus> for FilterStatusFlags, as bits(): the fix type
\* shifted into place, then one |= per boolean field that is set
FilterStatusFlags_from(status) ==
    LET fix_bits == (GnssFixType_as_u16(status.gnss_fix_type) * 16) % 65536
        RECURSIVE set(_, _)
        set(flags, i) ==
            IF i > Len(FilterStatusBits) THEN flags
            ELSE set(IF status.flag[FilterStatusBits[i][1]]
                     THEN OrBits(flags, FilterStatusBits[i][2], 16)
                     ELSE flags, i + 1)
    IN  set(from_bits_truncate(fix_bits, FilterStatusFlags_all), 1)

NoStatus == [gnss_fix_type |-> "NoFix", flag |-> [f \in BoolFields |-> FALSE]]

\* ------------------------------------------------------------------------
\* Clean API for packet ids (packet/system.rs, packet/config.rs)
\* ------------------------------------------------------------------------

\* enum PacketKind in declaration order: define_packets! lists the variants
\* without discriminants and adds Unsupported last
PacketKind_variants ==
    <<"Acknowledge", "Request", "BootMode", "DeviceInformation",
      "RestoreFactorySettings", "Reset", "IpConfiguration", "SystemState",
      "UnixTime", "Status", "EulerOrientationStdDev", "RawSensors",
      "PacketTimerPeriod", "PacketsPeriod", "InstallationAlignment",
      "FilterOptions", "OdometerConfiguration", "SetZeroOrientationAlignment",
      "ReferencePointOffsets", "IpDataportsConfiguration", "Unsupported">>

\* PacketKind as u8: the discriminant of a fieldless enum without explicit
\* discriminants is the variant's position, counted from zero
PacketKind_as_u8(kind) ==
    (CHOOSE i \in DOMAIN PacketKind_variants : PacketKind_variants[i] = kind) - 1

\* impl From<RequestPacket> for Request
Request_from(p) == [requested_packet |-> PacketKind_from(p.packet_id)]

\* impl From<Request> for RequestPacket
RequestPacket_from(r) == [packet_id |-> PacketKind_as_u8(r.requested_packet)]

\* impl From<PacketPeriodEntry> for PacketPeriod.  period is a u32 of
\* milliseconds; the Duration is held as its u64 millisecond count,
\* both base-256 numerals, most significant byte first
PacketPeriod_from(p) ==
    [packet_type |-> PacketKind_from(p.packet_id),
     period |-> Rep(4, 0) \o p.period]

\* impl From<PacketPeriod> for PacketPeriodEntry: as_millis() as u32
PacketPeriodEntry_from(p) ==
    [packet_id |-> PacketKind_as_u8(p.packet_type),
     period |-> SubSeq(p.period, Len(p.period) - 3, Len(p.period))]

NoWire == [packet_id |-> 0]
NoClean == [requested_packet |-> "Unsupported"]

\* ------------------------------------------------------------------------
\* Stream parser (parser.rs)
\* ------------------------------------------------------------------------

MIN_PACKET_SIZE == 5

\* Builds differ on integer overflow: "debug" panics, "release" wraps
Builds == {"debug", "release"}

\* Modulus of wrapping usize arithmetic.  usize is 32 or 64 bits wide; the
\* model wraps at 2^30, which TLC's 32-bit integers can hold: the only
\* wrapped value, expected_length - 5 for expected_length < 5, is compared
\* with a payload length of at most 250 and exceeds it at every such width.
UsizeMod == 2 ^ 30

\* parser.rs calculate_lrc: XOR of id, length and the two CRC bytes
calculate_lrc(packet_id, length, crc16) ==
    LET crc_low == crc16 % 256
        crc_high == (crc16 \div 256) % 256
    IN  XorBits(XorBits(XorBits(packet_id, length, 8), crc_low, 8), crc_high, 8)

NoPacket == [kind |-> "None", data |-> <<>>]

ParseErr(e) == [tag |-> e, packet |-> NoPacket, consumed |-> 0]

\* parser.rs parse_packet(input) under build b.  tag is "Ok", one of the
\* ParseError variants, or "Panic".
parse_packet(input, b) ==
    IF Len(input) < MIN_PACKET_SIZE THEN ParseErr("IncompleteData")
    ELSE
    LET lrc == input[1]
        packet_id == input[2]
        payload_length == input[3]
    IN  IF payload_length + 5 > 255 /\ b = "debug" THEN ParseErr("Panic")
        ELSE
        LET packet_length == (payload_length + 5) % 256
            crc16 == from_le_bytes(input[4], input[5])
        IN  IF Len(input) < packet_length THEN ParseErr("IncompleteData")
            ELSE IF lrc # calculate_lrc(packet_id, payload_length, crc16)
                 THEN ParseErr("InvalidHeader")
            \* input[5..packet_length] with packet_length < 5
            ELSE IF packet_length < 5 THEN ParseErr("Panic")
            ELSE
            LET payload == SubSeq(input, 6, packet_length)
                packet_kind == PacketKind_from(packet_id)
                bl == byte_length(packet_kind)
            IN  IF packet_kind = "Unsupported"
                THEN [tag |-> "Ok",
                      packet |-> [kind |-> "Unsupported", data |-> <<payload>>],
                      consumed |-> payload_length]
                ELSE IF \E el \in bl : el < 5 /\ b = "debug" THEN ParseErr("Panic")
                ELSE IF \E el \in bl : Len(payload) # (el - 5) % UsizeMod
                     THEN ParseErr("InvalidPayload")
                ELSE IF crc16 # calculate_crc16(payload) THEN ParseErr("InvalidCRC")
                ELSE LET r == from_bytes(packet_id, payload)
                     IN  IF r.ok
                         THEN [tag |-> "Ok", packet |-> r.packet,
                               consumed |-> payload_length]
                         ELSE ParseErr("InvalidPayload")

RECURSIVE ConsumeLoop(_, _, _)
\* The loop of AnppParser::consume on buffer buf after `skipped` 1-byte
\* drops: returns the final buffer, the returned Option and the drop count.
ConsumeLoop(buf, b, skipped) ==
    LET r == parse_packet(buf, b)
    IN  CASE r.tag = "Ok" ->
               [buf |-> SubSeq(buf, r.consumed + 1, Len(buf)), ret |-> "Some",
                packet |-> r.packet, skipped |-> skipped, len_byte |-> buf[3]]
          [] r.tag = "IncompleteData" ->
               [buf |-> buf, ret |-> "None", packet |-> NoPacket,
                skipped |-> skipped, len_byte |-> 0]
          [] r.tag = "Panic" ->
               [buf |-> buf, ret |-> "Panic", packet |-> NoPacket,
                skipped |-> skipped, len_byte |-> 0]
          [] OTHER ->
               IF buf # <<>>
               THEN ConsumeLoop(Tail(buf), b, skipped + 1)
               ELSE [buf |-> buf, ret |-> "None", packet |-> NoPacket,
                     skipped |-> skipped, len_byte |-> 0]

\* AnppParser::consume(input) on buffer buf
consume(buf, input, b) == ConsumeLoop(buf \o input, b, 0)

\* ------------------------------------------------------------------------
\* Reader (reader.rs): AnppReader over a finite byte source
\* ------------------------------------------------------------------------

BUFFER_SIZE == 8192

Min(a, b) == IF a < b THEN a ELSE b

\* Reading from the source whatever drain_internal says
bytes_read_nodrain(drain, chunk, remaining) ==
    Min(Min(chunk, BUFFER_SIZE), remaining)

\* Bytes one loop iteration of next hands to consume: none while draining,
\* else what self.reader.read(&mut buffer) returns
bytes_read_of(drain, chunk, remaining) ==
    IF drain THEN 0 ELSE Min(Min(chunk, BUFFER_SIZE), remaining)

\* AnppReader::next on a source holding `stream`, read up to position p, whose
\* read() returns at most `chunk` bytes at a time; b is the parser's buffer,
\* drain is drain_internal, acc the bytes read so far by this call.
RECURSIVE AnppReader_next(_, _, _, _, _, _, _)
\* One loop iteration computes bytes_read and then r, the result of consume,
\* once each.
AnppReader_next(stream, chunk, p, b, drain, bld, acc) ==
    LET iteration(bytes_read, r) ==
            LET is_eof == ~drain /\ bytes_read = 0
                input == SubSeq(stream, p + 1, p + bytes_read)
                out(x, d) == [pos |-> p + bytes_read, buf |-> r.buf,
                              drain_internal |-> d, ret |-> x, packet |-> r.packet,
                              input |-> acc \o input]
            IN  CASE r.ret = "Some" -> out("Some", TRUE)
                  [] r.ret = "Panic" -> out("Panic", drain)
                  [] OTHER ->
                       IF is_eof THEN out("None", FALSE)
                       ELSE AnppReader_next(stream, chunk, p + bytes_read, r.buf,
                                            FALSE, bld, acc \o input)
    IN  CHOOSE res \in
            UNION {{iteration(n, r)
                      : r \in {consume(b, SubSeq(stream, p + 1, p + n), bld)}}
                      : n \in {bytes_read_of(drain, chunk, Len(stream) - p)}} : TRUE

\* ------------------------------------------------------------------------
\* Inputs: streams of bytes handed to the parser, payloads handed to the
\* framer
\* ------------------------------------------------------------------------

\* Longest enumerated payload handed to the framer
MaxPayloadLen == 2
\* Longest payload of a frame with an id outside the registry
MaxUnsupportedLen == 1
\* Longest stream of arbitrary bytes
MaxRawLen == 5
\* Largest chunk handed to one consume call (besides "all the rest")
MaxChunk == 3
\* Cap on the number of packets recorded (drain may return Some for ever)
MaxEmitted == 4

RECURSIVE SeqsUpTo(_, _)
\* All sequences over S of length 0..n
SeqsUpTo(S, n) ==
    IF n = 0 THEN {<<>>}
    ELSE LET shorter == SeqsUpTo(S, n - 1)
         IN  shorter \cup {Append(q, x) : q \in {t \in shorter : Len(t) = n - 1}, x \in S}

\* Byte values of packet fields and of unsupported payloads
FieldBytes == {20, 28}
\* Byte values of arbitrary streams and of garbage
RawBytes == {0, 7, 255}
Garbage == {<<>>, <<0>>, <<255, 7>>}
\* Ids of the frames fed to the parser: Request (fixed, 1 byte), an id
\* outside the registry, UnixTime (fixed, 8 bytes), PacketsPeriod (variable)
FrameIds == {1, 7, 21, 181}

\* Encoded values of each kind over FieldBytes
PayloadsOf(id) ==
    CASE id = 1 -> {<<b>> : b \in FieldBytes}
      [] id = 21 -> {<<b, 0, 0, 0, 28, 0, 0, 0>> : b \in FieldBytes}
      [] id = 181 -> {<<1, c>> : c \in FieldBytes} \cup {<<1, 0, 20, 28, 0, 0, 0>>}
      [] OTHER -> SeqsUpTo(FieldBytes, MaxUnsupportedLen)

FrameInputs ==
    UNION {{[id |-> i, payload |-> p] : p \in PayloadsOf(i)} : i \in FrameIds}

Frame(f) == create_packet(f.id, f.payload).bytes
Expected(f) == from_bytes(f.id, f.payload).packet

\* Scenarios: one framed packet; two framed packets with garbage between;
\* arbitrary bytes
Scenarios ==
    {[type |-> "one", frames |-> <<f>>, garbage |-> <<>>, stream |-> Frame(f)]
        : f \in FrameInputs}
    \cup
    {[type |-> "two", frames |-> <<f, g>>, garbage |-> x,
      stream |-> Frame(f) \o x \o Frame(g)]
        : f \in FrameInputs, g \in FrameInputs, x \in Garbage}
    \cup
    {[type |-> "raw", frames |-> <<>>, garbage |-> <<>>, stream |-> q]
        : q \in SeqsUpTo(RawBytes, MaxRawLen)}

\* ------------------------------------------------------------------------
\* State
\* ------------------------------------------------------------------------

VARIABLES
    build,      \* overflow behaviour of the build running the parser
    scen,       \* the scenario the byte source follows
    pos,        \* number of bytes of scen.stream handed to consume so far
    buf,        \* AnppParser.buf
    fed,        \* every byte handed to consume since new() or the last clear()
    ret,        \* what the last call did: "Init", "None", "Some", "Panic", "Cleared"
    last,       \* observations of the last consume call
    emitted,    \* packets returned so far, in order
    f_pc,       \* framer run: "idle", "input", "created", "parsed"
    f_id,       \* framer input: packet id
    f_data,     \* framer input: payload
    f_frame,    \* result of create_packet
    f_parsed,   \* result of parse_packet on the created frame
    c_pc,       \* codec run: "idle", "value", "encoded", "decoded"
    c_src,      \* where the codec run started: a constructor, a value, received bytes
    c_packet,   \* the AnppPacket handed to to_bytes
    c_id,       \* packet id handed to from_bytes
    c_bytes,    \* payload bytes: result of to_bytes, or received
    c_decoded,  \* result of from_bytes
    r_pc,       \* reader run: "idle", "iterating", "ended"
    r_chunk,    \* most bytes one read() of the source returns
    drain_internal,  \* AnppReader.drain_internal
    fl_pc,      \* filter status run: "idle", "word", "status", "toggled", "flags"
    fl_word,    \* the 16-bit filter status word read from the wire
    fl_status,  \* the clean FilterStatus
    fl_toggled, \* the boolean field the caller flipped, "" when none
    fl_back,    \* bits() of the FilterStatusFlags converted back
    k_pc,       \* clean API run: "idle", "wire", "clean", "back"
    k_api,      \* the pair of structs converted: "Request" or "PacketPeriod"
    k_wire,     \* the wire struct the run starts from
    k_clean,    \* the clean struct
    k_back      \* the wire struct converted back

vars == <<build, scen, pos, buf, fed, ret, last, emitted, f_pc, f_id, f_data, f_frame,
          f_parsed, c_pc, c_src, c_packet, c_id, c_bytes, c_decoded,
          r_pc, r_chunk, drain_internal,
          fl_pc, fl_word, fl_status, fl_toggled, fl_back,
          k_pc, k_api, k_wire, k_clean, k_back>>
parserVars == <<build, scen, pos, buf, fed, ret, last, emitted>>
flagVars == <<fl_pc, fl_word, fl_status, fl_toggled, fl_back>>
kindVars == <<k_pc, k_api, k_wire, k_clean, k_back>>
apiVars == <<flagVars, kindVars>>
framerVars == <<f_pc, f_id, f_data, f_frame, f_parsed>>
codecVars == <<c_pc, c_src, c_packet, c_id, c_bytes, c_decoded>>

NoCall == [pre |-> <<>>, before |-> <<>>, input |-> <<>>, skipped |-> 0,
           len_byte |-> 0, packet |-> NoPacket]
NoFrame == [ok |-> FALSE, err |-> "", bytes |-> <<>>]
NoParsed == FramerErr("", 0, 0)

FramerIdle ==
    /\ f_pc = "idle" /\ f_id = 0 /\ f_data = <<>>
    /\ f_frame = NoFrame /\ f_parsed = NoParsed

readerVars == <<r_pc, r_chunk, drain_internal>>

ReaderIdle == r_pc = "idle" /\ r_chunk = 0 /\ drain_internal = FALSE

NoDecoded == [ok |-> FALSE, packet |-> NoPacket]

CodecIdle ==
    /\ c_pc = "idle" /\ c_src = "" /\ c_packet = NoPacket /\ c_id = 0
    /\ c_bytes = <<>> /\ c_decoded = NoDecoded

ParserIdle ==
    /\ build = "release" /\ scen = [type |-> "raw", frames |-> <<>>, garbage |-> <<>>, stream |-> <<>>]
    /\ pos = 0 /\ buf = <<>> /\ fed = <<>> /\ ret = "Init" /\ last = NoCall /\ emitted = <<>>

FlagsIdle ==
    /\ fl_pc = "idle" /\ fl_word = 0 /\ fl_status = NoStatus
    /\ fl_toggled = "" /\ fl_back = 0

KindIdle ==
    /\ k_pc = "idle" /\ k_api = "" /\ k_wire = NoWire
    /\ k_clean = NoClean /\ k_back = NoWire

ApiIdle == FlagsIdle /\ KindIdle

\* AnppParser::new(): empty buffer
Init ==
    /\ build \in Builds
    /\ scen \in Scenarios
    /\ pos = 0
    /\ buf = <<>>
    /\ fed = <<>>
    /\ ret = "Init"
    /\ last = NoCall
    /\ emitted = <<>>
    /\ FramerIdle
    /\ CodecIdle
    /\ ReaderIdle
    /\ ApiIdle

\* One call of AnppParser::consume(input)
Call(input) ==
    \E r \in {consume(buf, input, build)} :
        /\ buf' = r.buf
        /\ fed' = fed \o input
        /\ ret' = r.ret
        /\ last' = [pre |-> buf \o input, before |-> buf, input |-> input,
                    skipped |-> r.skipped, len_byte |-> r.len_byte, packet |-> r.packet]
        /\ emitted' = IF r.ret = "Some" THEN Append(emitted, r.packet) ELSE emitted

\* The caller hands the next n bytes of the stream to consume
Feed ==
    /\ ret # "Panic"
    /\ pos < Len(scen.stream)
    /\ Len(emitted) < MaxEmitted
    /\ \E n \in (0..MaxChunk) \cup {Len(scen.stream) - pos} :
          /\ pos + n <= Len(scen.stream)
          /\ pos' = pos + n
          /\ Call(SubSeq(scen.stream, pos + 1, pos + n))
    /\ UNCHANGED <<build, scen>>
    /\ UNCHANGED <<framerVars, codecVars, readerVars, apiVars>>

\* After the end of the stream the caller drains with empty slices
Drain ==
    /\ ret # "Panic"
    /\ pos = Len(scen.stream)
    /\ Len(emitted) < MaxEmitted
    /\ Call(<<>>)
    /\ UNCHANGED <<build, scen, pos>>
    /\ UNCHANGED <<framerVars, codecVars, readerVars, apiVars>>

Next == Feed \/ Drain

Spec == Init /\ [][Next]_vars

\* ------------------------------------------------------------------------
\* Framer run: create_packet, then parse_packet on what it returned
\* ------------------------------------------------------------------------

\* Byte values of framer payloads
PayloadBytes == {0, 1, 20, 127, 128, 255}
\* Payloads longer than MaxPayloadLen, up to and beyond the 255-byte limit
FramerLongLens == {250, 255, 256}

LongPayload(n) == [i \in 1..n |-> i % 256]

FramerPayloads ==
    SeqsUpTo(PayloadBytes, MaxPayloadLen) \cup {LongPayload(n) : n \in FramerLongLens}

InitFramer ==
    /\ ParserIdle
    /\ CodecIdle
    /\ ReaderIdle
    /\ ApiIdle
    /\ f_pc = "input"
    /\ f_id \in Byte
    /\ f_data \in FramerPayloads
    /\ f_frame = NoFrame
    /\ f_parsed = NoParsed

CreatePacket ==
    /\ f_pc = "input"
    /\ f_frame' = create_packet(f_id, f_data)
    /\ f_pc' = "created"
    /\ UNCHANGED <<f_id, f_data, f_parsed>>
    /\ UNCHANGED <<parserVars, codecVars, readerVars, apiVars>>

ParsePacket ==
    /\ f_pc = "created"
    /\ f_frame.ok
    /\ f_parsed' = AnppProtocol_parse_packet(f_frame.bytes)
    /\ f_pc' = "parsed"
    /\ UNCHANGED <<f_id, f_data, f_frame>>
    /\ UNCHANGED <<parserVars, codecVars, readerVars, apiVars>>

NextFramer == CreatePacket \/ ParsePacket

SpecFramer == InitFramer /\ [][NextFramer]_vars

\* Byte slices a caller hands to AnppProtocol::parse_packet: short slices,
\* arbitrary 5-byte headers, and frames built by create_packet, whole,
\* truncated, extended and with one byte changed.
RawFrameIds == {0, 7, 20, 181, 255}
RawFramePayloads == {<<>>, <<20>>, <<20, 28>>, <<0, 0, 0>>}
WellFormed == {create_packet(id, d).bytes : id \in RawFrameIds, d \in RawFramePayloads}
Corrupt(bytes, i) == [bytes EXCEPT ![i] = (bytes[i] + 1) % 256]
RawFrames ==
    SeqsUpTo(RawBytes, 4)
    \cup {<<a, 7, l, c, 255>> : a \in RawBytes, l \in {0, 1, 250}, c \in RawBytes}
    \cup WellFormed
    \cup {SubSeq(w, 1, Len(w) - 1) : w \in WellFormed}
    \cup {Append(w, 0) : w \in WellFormed}
    \cup UNION {{Corrupt(w, i) : i \in 1..Len(w)} : w \in WellFormed}

\* A caller holding an arbitrary byte slice, about to call parse_packet
InitFramerRaw ==
    /\ ParserIdle
    /\ CodecIdle
    /\ ReaderIdle
    /\ ApiIdle
    /\ f_pc = "created"
    /\ f_id = 0
    /\ f_data = <<>>
    /\ f_frame \in {[ok |-> TRUE, err |-> "", bytes |-> b] : b \in RawFrames}
    /\ f_parsed = NoParsed

SpecFramerRaw == InitFramerRaw /\ [][ParsePacket]_vars

\* ------------------------------------------------------------------------
\* Codec runs: to_bytes on a packet value, from_bytes on payload bytes
\* ------------------------------------------------------------------------

MaxSeed == 5
MaxEntries == 3

Kinds ==
    {"Acknowledge", "Request", "BootMode", "DeviceInformation",
     "RestoreFactorySettings", "Reset", "IpConfiguration", "SystemState",
     "UnixTime", "Status", "EulerOrientationStdDev", "RawSensors",
     "PacketTimerPeriod", "InstallationAlignment", "FilterOptions",
     "OdometerConfiguration", "SetZeroOrientationAlignment",
     "ReferencePointOffsets", "IpDataportsConfiguration"}

\* Byte k of the value with seed s: seed 0 is all zeros, seed 1 all ones,
\* the others give neighbouring bytes different values
SeedByte(s, k) ==
    IF s = 0 THEN 0 ELSE IF s = 1 THEN 255 ELSE (s * 89 + k * 37 + 5) % 256

ModeOf(n) == CASE n = 0 -> 0 [] n = 1 -> 2 [] n = 2 -> 3 [] n = 3 -> 4

\* A valid value of field i of type t
FieldValue(t, s, i) ==
    CASE t = "VehicleType" -> <<SeedByte(s, i) % 15>>
      [] t = "IpDataportMode" -> <<ModeOf(SeedByte(s, i) % 4)>>
      [] OTHER -> [j \in 1..Width(t) |-> SeedByte(s, 8 * i + j)]

StructValue(kind, layout, s) ==
    [kind |-> kind, data |-> [i \in 1..Len(layout) |-> FieldValue(layout[i], s, i)]]

\* Packet values handed to to_bytes
CodecValues ==
    {StructValue(k, Layout(k), s) : k \in Kinds, s \in 0..MaxSeed}
    \cup {StructValue("PacketsPeriod", PacketsPeriodLayout(n), s)
             : n \in 0..MaxEntries, s \in 0..MaxSeed}
    \cup {[kind |-> "Unsupported", data |-> <<q>>] : q \in SeqsUpTo(FieldBytes, 2)}

\* Packets built by the constructors of the destructive commands
Constructed ==
    {[src |-> "ResetPacket::new", packet |-> ResetPacket_new],
     [src |-> "RestoreFactorySettingsPacket::new",
      packet |-> RestoreFactorySettingsPacket_new],
     [src |-> "From<Reset>", packet |-> From_Reset],
     [src |-> "From<RestoreFactorySettings>", packet |-> From_RestoreFactorySettings]}
    \cup {[src |-> "From<SetZeroOrientationAlignment>",
           packet |-> From_SetZeroOrientationAlignment(b)] : b \in BOOLEAN}

\* Payloads received for id 181, of every length up to MaxEntries entries
\* and a partial one
ReceivedPeriods ==
    {[j \in 1..n |-> SeedByte(s, j)] : n \in 0..(2 + 5 * MaxEntries + 4), s \in {1, 2}}

\* Start of a codec run: a value to encode, or received bytes to decode
InitCodec ==
    /\ ParserIdle
    /\ FramerIdle
    /\ ReaderIdle
    /\ ApiIdle
    /\ c_decoded = NoDecoded
    /\ \/ /\ c_pc = "value" /\ c_src = "value" /\ c_packet \in CodecValues
          /\ c_id = 0 /\ c_bytes = <<>>
       \/ /\ c_pc = "value" /\ c_id = 0 /\ c_bytes = <<>>
          /\ \E c \in Constructed : c_src = c.src /\ c_packet = c.packet
       \/ /\ c_pc = "encoded" /\ c_src = "received" /\ c_packet = NoPacket
          /\ c_id = 181 /\ c_bytes \in ReceivedPeriods

\* packet.to_bytes()
Encode ==
    /\ c_pc = "value"
    /\ c_bytes' = to_bytes(c_packet)
    /\ c_id' = packet_id_of(c_packet.kind)
    /\ c_pc' = "encoded"
    /\ UNCHANGED <<c_src, c_packet, c_decoded>>
    /\ UNCHANGED <<parserVars, framerVars, readerVars, apiVars>>

\* AnppPacket::from_bytes(id, bytes)
Decode ==
    /\ c_pc = "encoded"
    /\ c_decoded' = from_bytes(c_id, c_bytes)
    /\ c_pc' = "decoded"
    /\ UNCHANGED <<c_src, c_packet, c_id, c_bytes>>
    /\ UNCHANGED <<parserVars, framerVars, readerVars, apiVars>>

NextCodec == Encode \/ Decode

SpecCodec == InitCodec /\ [][NextCodec]_vars

\* ------------------------------------------------------------------------
\* Enum-typed payloads: decoded by from_bytes and streamed to the parser
\* ------------------------------------------------------------------------

\* Raw values of an enum byte: members and non-members
VehicleBytes == {0, 14, 15, 255}
ModeBytes == {0, 1, 4, 5, 255}

\* A FilterOptions payload with vehicle-type byte v
FilterOptionsPayload(v) == [i \in 1..17 |-> IF i = 2 THEN v ELSE SeedByte(2, i)]

\* An IpDataportsConfiguration payload whose dataport d has mode byte m,
\* the other three having mode 2
IpDataportsPayload(d, m) ==
    [i \in 1..30 |-> IF i = 2 + 7 * d THEN m
                     ELSE IF i > 2 /\ (i - 2) % 7 = 0 THEN 2
                     ELSE SeedByte(3, i)]

EnumInputs ==
    {[id |-> 186, payload |-> FilterOptionsPayload(v)] : v \in VehicleBytes}
    \cup {[id |-> 202, payload |-> IpDataportsPayload(d, m)]
             : d \in 1..4, m \in ModeBytes}

\* The frame of a sender whose header LRC is the one parser.rs checks
ParserFrame(f) ==
    LET crc16 == calculate_crc16(f.payload)
    IN  <<calculate_lrc(f.id, Len(f.payload), crc16), f.id, Len(f.payload)>>
        \o to_le_bytes(crc16) \o f.payload

\* A payload arrives: from_bytes is called on it, and the frame that holds
\* it is streamed to a new parser
InitEnum ==
    /\ FramerIdle
    /\ ReaderIdle
    /\ ApiIdle
    /\ build \in Builds
    /\ \E f \in EnumInputs :
          /\ scen \in {[type |-> "enum", frames |-> <<f>>, garbage |-> <<>>,
                        stream |-> q] : q \in {Frame(f), ParserFrame(f)}}
          /\ c_id = f.id
          /\ c_bytes = f.payload
    /\ pos = 0 /\ buf = <<>> /\ fed = <<>> /\ ret = "Init" /\ last = NoCall /\ emitted = <<>>
    /\ c_pc = "encoded" /\ c_src = "received" /\ c_packet = NoPacket
    /\ c_decoded = NoDecoded

NextEnum == Decode \/ Feed \/ Drain

SpecEnum == InitEnum /\ [][NextEnum]_vars

\* ------------------------------------------------------------------------
\* Reader runs: a for loop over AnppReader::new(source)
\* ------------------------------------------------------------------------

\* Sizes of the reads the source answers with
ReadChunks == {1, 3, BUFFER_SIZE}

\* Sources in which a frame the parser accepts is followed by more bytes
ReaderSources ==
    {[type |-> "raw", frames |-> <<>>, garbage |-> <<>>,
      stream |-> ParserFrame([id |-> 7, payload |-> p]) \o q]
        : p \in {<<>>, <<28>>}, q \in {<<255, 7>>, <<121, 7, 1, 77, 50, 28>>}}

\* AnppReader::new(reader) over a source holding scen.stream
InitReader ==
    /\ build \in Builds
    /\ scen \in Scenarios \cup ReaderSources
    /\ pos = 0 /\ buf = <<>> /\ fed = <<>> /\ ret = "Init" /\ last = NoCall /\ emitted = <<>>
    /\ r_pc = "iterating"
    /\ r_chunk \in ReadChunks
    /\ drain_internal = FALSE
    /\ FramerIdle
    /\ CodecIdle
    /\ ApiIdle

\* One call of AnppReader::next by the for loop, which stops at None
ReaderNext ==
    /\ r_pc = "iterating"
    /\ ret # "Panic"
    /\ Len(emitted) < MaxEmitted
    /\ \E r \in {AnppReader_next(scen.stream, r_chunk, pos, buf, drain_internal,
                                   build, <<>>)} :
           /\ pos' = r.pos
           /\ buf' = r.buf
           /\ fed' = fed \o SubSeq(scen.stream, pos + 1, r.pos)
           /\ drain_internal' = r.drain_internal
           /\ ret' = r.ret
           /\ last' = [pre |-> buf \o r.input, before |-> buf, input |-> r.input,
                       skipped |-> 0, len_byte |-> 0, packet |-> r.packet]
           /\ emitted' = IF r.ret = "Some" THEN Append(emitted, r.packet) ELSE emitted
           /\ r_pc' = IF r.ret = "None" THEN "ended" ELSE "iterating"
    /\ UNCHANGED <<build, scen, r_chunk>>
    /\ UNCHANGED <<framerVars, codecVars, apiVars>>

SpecReader == InitReader /\ [][ReaderNext]_vars

\* ------------------------------------------------------------------------
\* Filter status runs: a word read from the wire, converted to the clean
\* FilterStatus, optionally edited, and converted back
\* ------------------------------------------------------------------------

\* Bits 7..15 of the words tried: none, each one alone, all nine
HighPatterns == {0, 65408} \cup {b \in {BitOf(f) : f \in BoolFields} : b >= 128}

FlagWords == {hi + 16 * fix + low : hi \in HighPatterns, fix \in 0..7, low \in 0..15}

InitFlags ==
    /\ ParserIdle
    /\ FramerIdle
    /\ CodecIdle
    /\ ReaderIdle
    /\ KindIdle
    /\ fl_pc = "word"
    /\ fl_word \in FlagWords
    /\ fl_status = NoStatus
    /\ fl_toggled = ""
    /\ fl_back = 0

\* The word is read (br map: from_bits_truncate) and converted with
\* FilterStatus::from
ToStatus ==
    /\ fl_pc = "word"
    /\ fl_status' = FilterStatus_from(from_bits_truncate(fl_word, FilterStatusFlags_all))
    /\ fl_pc' = "status"
    /\ UNCHANGED <<fl_word, fl_toggled, fl_back>>
    /\ UNCHANGED <<parserVars, framerVars, codecVars, readerVars, kindVars>>

\* The caller flips one boolean field of the clean struct
Toggle ==
    /\ fl_pc = "status"
    /\ \E f \in BoolFields :
          /\ fl_status' = [fl_status EXCEPT !.flag[f] = ~@]
          /\ fl_toggled' = f
    /\ fl_pc' = "toggled"
    /\ UNCHANGED <<fl_word, fl_back>>
    /\ UNCHANGED <<parserVars, framerVars, codecVars, readerVars, kindVars>>

\* FilterStatusFlags::from(status), written back (bw map: bits())
ToFlags ==
    /\ fl_pc \in {"status", "toggled"}
    /\ fl_back' = FilterStatusFlags_from(fl_status)
    /\ fl_pc' = "flags"
    /\ UNCHANGED <<fl_word, fl_status, fl_toggled>>
    /\ UNCHANGED <<parserVars, framerVars, codecVars, readerVars, kindVars>>

NextFlags == ToStatus \/ Toggle \/ ToFlags

SpecFlags == InitFlags /\ [][NextFlags]_vars

\* ------------------------------------------------------------------------
\* Clean API runs: a wire struct converted to its clean struct and back,
\* or a clean struct built by the caller and converted to its wire struct
\* ------------------------------------------------------------------------

SupportedIds == {id \in Byte : PacketKind_from(id) # "Unsupported"}

KindIds == SupportedIds \cup {7, 255}

Periods == {<<0, 0, 0, 0>>, <<0, 0, 3, 232>>, <<255, 255, 255, 255>>}

WireStructs(api) ==
    IF api = "Request"
    THEN {[packet_id |-> id] : id \in KindIds}
    ELSE {[packet_id |-> id, period |-> t] : id \in KindIds, t \in Periods}

CleanStructs(api) ==
    IF api = "Request"
    THEN {[requested_packet |-> PacketKind_variants[i]] : i \in DOMAIN PacketKind_variants}
    ELSE {[packet_type |-> PacketKind_variants[i], period |-> Rep(4, 0) \o t]
             : i \in DOMAIN PacketKind_variants, t \in Periods}

InitKind ==
    /\ ParserIdle
    /\ FramerIdle
    /\ CodecIdle
    /\ ReaderIdle
    /\ FlagsIdle
    /\ k_api \in {"Request", "PacketPeriod"}
    /\ k_back = NoWire
    /\ \/ k_pc = "wire" /\ k_wire \in WireStructs(k_api) /\ k_clean = NoClean
       \/ k_pc = "built" /\ k_wire = NoWire /\ k_clean \in CleanStructs(k_api)

\* Request::from(wire) or PacketPeriod::from(wire)
ToClean ==
    /\ k_pc = "wire"
    /\ k_clean' = IF k_api = "Request" THEN Request_from(k_wire)
                  ELSE PacketPeriod_from(k_wire)
    /\ k_pc' = "clean"
    /\ UNCHANGED <<k_api, k_wire, k_back>>
    /\ UNCHANGED <<parserVars, framerVars, codecVars, readerVars, flagVars>>

\* RequestPacket::from(clean) or PacketPeriodEntry::from(clean)
ToWire ==
    /\ k_pc \in {"clean", "built"}
    /\ k_back' = IF k_api = "Request" THEN RequestPacket_from(k_clean)
                 ELSE PacketPeriodEntry_from(k_clean)
    /\ k_pc' = IF k_pc = "clean" THEN "back" ELSE "sent"
    /\ UNCHANGED <<k_api, k_wire, k_clean>>
    /\ UNCHANGED <<parserVars, framerVars, codecVars, readerVars, flagVars>>

NextKind == ToClean \/ ToWire

SpecKind == InitKind /\ [][NextKind]_vars

\* ------------------------------------------------------------------------
\* Parser runs in which the caller may also call clear
\* ------------------------------------------------------------------------

\* A clear that leaves the buffer as it is
clear_keep(b) == b

\* AnppParser::clear: self.buf.clear()
clear(b) == <<>>

\* AnppParser::buffer_len
buffer_len(b) == Len(b)

Clear ==
    /\ ret # "Panic"
    /\ buf' = clear(buf)
    /\ fed' = <<>>
    /\ ret' = "Cleared"
    /\ last' = NoCall
    /\ UNCHANGED <<build, scen, pos, emitted>>
    /\ UNCHANGED <<framerVars, codecVars, readerVars, apiVars>>

NextClear == Feed \/ Drain \/ Clear

\* Streams for these runs: one framed packet, arbitrary bytes, and frames
\* the parser accepts followed by more bytes
ClearSources == {s \in Scenarios : s.type # "two"} \cup ReaderSources

\* AnppParser::new() before a run of consume and clear calls
InitClear ==
    /\ build \in Builds
    /\ scen \in ClearSources
    /\ pos = 0 /\ buf = <<>> /\ fed = <<>> /\ ret = "Init" /\ last = NoCall /\ emitted = <<>>
    /\ FramerIdle
    /\ CodecIdle
    /\ ReaderIdle
    /\ ApiIdle

SpecClear == InitClear /\ [][NextClear]_vars

\* ------------------------------------------------------------------------
\* Properties of the stream parser (checked under Spec)
\* ------------------------------------------------------------------------

\* The stream is exhausted and the last consume call returned None
Done == pos = Len(scen.stream) /\ ret = "None"

\* The packets the scenario's frames encode, in stream order
ExpectedPackets == [i \in 1..Len(scen.frames) |-> Expected(scen.frames[i])]

IsPrefix(p, q) == Len(p) <= Len(q) /\ SubSeq(q, 1, Len(p)) = p

\* C1 (corruption resync): when F1 ++ garbage ++ F2, both frames built by
\* create_packet, has been fed in any chunking and drained until consume
\* returns None, the packets returned are exactly [F1, F2] in that order.
C1_CorruptionResync ==
    (scen.type = "two" /\ Done) => emitted = ExpectedPackets

\* C2 (partial delivery): one frame built by create_packet, fed in any
\* chunking, yields exactly one packet, the one a single consume call on the
\* whole frame returns, and every call made before the last byte has
\* arrived returns None.
C2_PartialDelivery ==
    scen.type = "one" =>
        /\ (pos < Len(scen.stream) /\ ret # "Init") => ret = "None"
        /\ Done => /\ emitted = ExpectedPackets
                   /\ emitted = <<consume(<<>>, scen.stream, build).packet>>

\* C3: when consume returns a packet decoded from a frame whose length byte
\* is L, the buffer afterwards is what followed the 5 + L bytes of that frame.
C3_DrainsWholeFrame ==
    ret = "Some" =>
        buf = SubSeq(last.pre, last.skipped + 5 + last.len_byte + 1, Len(last.pre))

\* C4: a consume call never panics; it returns a packet or None.
C4_NoPanic == ret \in {"Init", "None", "Some"}

\* C5 (drain mode terminates): a consume call with an empty slice that
\* returns a packet leaves the buffer strictly shorter than it found it, so
\* only finitely many such calls return Some.
C5_DrainShrinks ==
    (ret = "Some" /\ last.input = <<>>) => Len(buf) < Len(last.before)

\* C6: when the stream is the concatenation of k frames built by
\* create_packet, the packets returned so far are always a prefix of the k
\* packets in stream order, and all k have been returned once consume
\* returns None at the end of the stream.
C6_OnePerCallInOrder ==
    (scen.type \in {"one", "two"} /\ scen.garbage = <<>>) =>
        /\ IsPrefix(emitted, ExpectedPackets)
        /\ Done => Len(emitted) = Len(scen.frames)

\* C7: when the buffer after appending the input holds fewer than 5 bytes,
\* or fewer than 5 plus the length byte at index 2, consume returns None and
\* the buffer is the old buffer followed by the input.
C7_IncompletePreserved ==
    (/\ ret # "Init"
     /\ \/ Len(last.pre) < 5
        \/ Len(last.pre) < 5 + last.pre[3]) =>
        /\ ret = "None"
        /\ buf = last.before \o last.input

\* C8: a frame built by create_packet with an id outside the registry comes
\* out as Unsupported(payload), and the frame right behind it comes out as
\* the next packet; nothing else is returned.
C8_UnsupportedThenNext ==
    (/\ scen.type = "two" /\ scen.garbage = <<>>
     /\ PacketKind_from(scen.frames[1].id) = "Unsupported") =>
        /\ Len(emitted) >= 1 =>
              emitted[1] = [kind |-> "Unsupported", data |-> <<scen.frames[1].payload>>]
        /\ Len(emitted) >= 2 => emitted[2] = Expected(scen.frames[2])
        /\ Len(emitted) <= 2
        /\ Done => Len(emitted) = 2

\* The buffer b starts with a complete frame whose header LRC the parser
\* accepts, whose id names a fixed-length kind and whose length byte is not
\* that kind's length
HeadFixedLengthMismatch(b) ==
    /\ Len(b) >= 5
    /\ Len(b) >= 5 + b[3]
    /\ b[1] = calculate_lrc(b[2], b[3], from_le_bytes(b[4], b[5]))
    /\ byte_length(PacketKind_from(b[2])) # {}
    /\ b[3] \notin byte_length(PacketKind_from(b[2]))

\* C9: a frame at the buffer head with a valid header LRC, a fixed-length
\* kind and a length byte that differs from the kind's length is not
\* returned: the call drops its first byte and goes on, without panicking.
C9_FixedLengthMismatchResyncs ==
    (ret # "Init" /\ HeadFixedLengthMismatch(last.pre)) =>
        /\ ret # "Panic"
        /\ last.skipped >= 1

\* ------------------------------------------------------------------------
\* Properties of the framer (checked under SpecFramer)
\* ------------------------------------------------------------------------

\* C10 (framing round trip): for every id and every payload of at most 255
\* bytes create_packet succeeds, and parse_packet on its bytes succeeds and
\* returns that id, that length and that payload.
C10_FramingRoundTrip ==
    /\ (f_pc \in {"created", "parsed"} /\ Len(f_data) <= 255) => f_frame.ok
    /\ f_pc = "parsed" =>
          /\ f_parsed.ok
          /\ f_parsed.header.packet_id = f_id
          /\ f_parsed.header.length = Len(f_data)
          /\ f_parsed.data = f_data

\* A 255-byte payload has gone through create_packet and parse_packet
C10_Witness ==
    f_pc = "parsed" /\ Len(f_data) = 255 /\ f_parsed.ok /\ f_parsed.data = f_data

\* C11: create_packet fails with PacketTooLong, returning no bytes, exactly
\* when the payload is longer than 255 bytes; otherwise it returns
\* 5 + payload.len() bytes whose byte 2 is payload.len().
C11_PacketTooLong ==
    f_pc \in {"created", "parsed"} =>
        /\ f_frame.ok <=> Len(f_data) <= 255
        /\ ~f_frame.ok => (f_frame.err = "PacketTooLong" /\ f_frame.bytes = <<>>)
        /\ f_frame.ok => /\ Len(f_frame.bytes) = 5 + Len(f_data)
                         /\ f_frame.bytes[3] = Len(f_data)

\* create_packet has refused a 256-byte payload
C11_Witness ==
    f_pc = "created" /\ Len(f_data) = 256 /\ f_frame.err = "PacketTooLong"

\* Sum of the four header bytes the LRC covers, taken from the frame
HeaderByteSum(bytes) == bytes[2] + bytes[3] + bytes[4] + bytes[5]

\* C12: the header LRC byte create_packet writes makes the five header bytes
\* sum to 0 modulo 256 (it is the two's complement of the sum of id, length
\* and the two CRC bytes, 0 when that sum is a multiple of 256), and bytes
\* 3-4 are the CRC16 of the payload, low byte first.
C12_HeaderLrc ==
    (f_pc \in {"created", "parsed"} /\ f_frame.ok) =>
        /\ f_frame.bytes[1] \in Byte
        /\ (f_frame.bytes[1] + HeaderByteSum(f_frame.bytes)) % 256 = 0
        /\ f_frame.bytes[2] = f_id
        /\ f_frame.bytes[4] = calculate_crc16(f_data) % 256
        /\ f_frame.bytes[5] = calculate_crc16(f_data) \div 256

\* A frame whose id, length and CRC bytes sum to a multiple of 256
C12_Witness ==
    /\ f_pc = "created" /\ f_frame.ok
    /\ HeaderByteSum(f_frame.bytes) % 256 = 0
    /\ HeaderByteSum(f_frame.bytes) > 0
    /\ f_frame.bytes[1] = 0

\* C13: parse_packet on a slice shorter than 5 bytes fails with the
\* too-short error; on a slice of at least 5 bytes whose length is not
\* 5 + the declared length byte it fails with the length-mismatch error
\* carrying expected = 5 + declared length and actual = slice length;
\* neither case returns a header or a payload.
C13_TooShortOrLengthMismatch ==
    f_pc = "parsed" =>
        LET bytes == f_frame.bytes
        IN  /\ Len(bytes) < 5 =>
                 /\ ~f_parsed.ok /\ f_parsed.err = "TooShort"
                 /\ f_parsed.header = NoHeader /\ f_parsed.data = <<>>
            /\ (Len(bytes) >= 5 /\ Len(bytes) # 5 + bytes[3]) =>
                 /\ ~f_parsed.ok /\ f_parsed.err = "InvalidLength"
                 /\ f_parsed.expected = 5 + bytes[3]
                 /\ f_parsed.actual = Len(bytes)
                 /\ f_parsed.header = NoHeader /\ f_parsed.data = <<>>

\* A slice one byte longer than its header declares has been rejected
C13_Witness ==
    /\ f_pc = "parsed" /\ Len(f_frame.bytes) >= 5
    /\ Len(f_frame.bytes) = 5 + f_frame.bytes[3] + 1
    /\ f_parsed.err = "InvalidLength" /\ f_parsed.actual = f_parsed.expected + 1

\* The three header invariants, read off the raw bytes of a frame
FrameValid(bytes) ==
    /\ Len(bytes) >= 5
    /\ bytes[3] = Len(bytes) - 5
    /\ bytes[4] + 256 * bytes[5] = calculate_crc16(SubSeq(bytes, 6, Len(bytes)))
    /\ (bytes[1] + HeaderByteSum(bytes)) % 256 = 0

\* C14: whenever parse_packet returns Ok((header, payload)) the header's
\* length is the payload's length, its crc16 is the CRC16 of the payload and
\* its header_lrc is the LRC of (packet_id, length, crc16); a frame that
\* violates one of the three is rejected with an error.
C14_OkImpliesHeaderInvariants ==
    f_pc = "parsed" =>
        /\ f_parsed.ok =>
             /\ f_parsed.header.length = Len(f_parsed.data)
             /\ f_parsed.header.crc16 = calculate_crc16(f_parsed.data)
             /\ (f_parsed.header.header_lrc + f_parsed.header.packet_id
                   + f_parsed.header.length + (f_parsed.header.crc16 % 256)
                   + (f_parsed.header.crc16 \div 256)) % 256 = 0
             /\ f_frame.bytes = serialize_header(f_parsed.header) \o f_parsed.data
        /\ ~FrameValid(f_frame.bytes) => ~f_parsed.ok

\* A frame with a payload has been accepted
C14_Witness ==
    f_pc = "parsed" /\ f_parsed.ok /\ Len(f_parsed.data) = 2

\* The frame at the head of the buffer when the last consume call found a
\* packet: the bytes left after the bytes that call skipped
EmittedFrame == SubSeq(last.pre, last.skipped + 1, Len(last.pre))

\* C15: every packet the stream parser emits comes from a validated frame:
\* the frame's header LRC matches and its CRC16 field is the CRC16 of its
\* payload, whatever the frame's id.
C15_EmittedFramesValidated ==
    ret = "Some" =>
        LET frame == EmittedFrame
            payload == SubSeq(frame, 6, 5 + frame[3])
        IN  /\ Len(frame) >= 5 + frame[3]
            /\ frame[1] = header_lrc(frame[2], frame[3], frame[4] + 256 * frame[5])
            /\ frame[4] + 256 * frame[5] = calculate_crc16(payload)

\* C16 (codec round trip): for every kind in the registry and every valid
\* value v of that kind, from_bytes(id, to_bytes(v)) succeeds and returns a
\* value equal to v field by field.
C16_CodecRoundTrip ==
    (c_pc = "decoded" /\ c_src = "value") =>
        /\ c_decoded.ok
        /\ c_decoded.packet.kind = c_packet.kind
        /\ Len(c_decoded.packet.data) = Len(c_packet.data)
        /\ \A i \in 1..Len(c_packet.data) :
              c_decoded.packet.data[i] = c_packet.data[i]

\* A SystemState value with unequal neighbouring bytes has been encoded to
\* its 100 bytes and decoded
C16_Witness ==
    /\ c_pc = "decoded" /\ c_src = "value" /\ c_packet.kind = "SystemState"
    /\ Len(c_bytes) = 100 /\ c_bytes[5] # c_bytes[8]
    /\ c_decoded.ok

\* The entries of a PacketsPeriod value: pairs of fields after the first two
NumEntries(packet) == (Len(packet.data) - 2) \div 2

ResetCode == <<126, 122, 5, 33>>
RestoreCode == <<28, 158, 66, 133>>
ZeroOrientationCode == <<85, 128, 78, 154>>

\* q occurs in p as a contiguous run of bytes
Carries(p, q) ==
    \E k \in 0..(Len(p) - Len(q)) : SubSeq(p, k + 1, k + Len(q)) = q

\* C19: the encoded payloads of the three destructive commands built by
\* their constructors carry their verification constants (Reset 0x21057A7E,
\* Restore-Factory-Settings 0x85429E1C, Set-Zero-Orientation-Alignment
\* 0x9A4E8055, little-endian u32), and converting the clean-API Reset and
\* RestoreFactorySettings values yields these constants.
C19_VerificationConstants ==
    c_pc \in {"encoded", "decoded"} =>
        /\ c_src \in {"ResetPacket::new", "From<Reset>"} => c_bytes = ResetCode
        /\ c_src \in {"RestoreFactorySettingsPacket::new",
                      "From<RestoreFactorySettings>"} => c_bytes = RestoreCode
        /\ c_src = "From<SetZeroOrientationAlignment>" =>
              Carries(c_bytes, ZeroOrientationCode)

\* The payload holds an enum byte that is not a member of its enumeration
BadEnum(f) ==
    \/ f.id = 186 /\ f.payload[2] \notin 0..14
    \/ f.id = 202 /\ \E d \in 1..4 : f.payload[2 + 7 * d] \notin {0, 2, 3, 4}

\* C18: decoding a filter-options payload whose vehicle-type byte is outside
\* 0..=14, or an IP-dataports payload with a mode byte outside the mode
\* enumeration, fails with a decode error; and in the stream parser the
\* frame holding such a payload is answered by a 1-byte resync and is never
\* emitted as a packet.
C18_BadEnumRejected ==
    (scen.type = "enum" /\ BadEnum(scen.frames[1])) =>
        /\ c_pc = "decoded" => ~c_decoded.ok
        /\ \A i \in 1..Len(emitted) :
              emitted[i].kind \notin {"FilterOptions", "IpDataportsConfiguration"}
        /\ (ret \in {"Some", "None"} /\ last.before # last.pre
              /\ IsPrefix(scen.stream, last.pre)) => last.skipped >= 1

\* A filter-options payload with vehicle type 15 has failed to decode, and
\* the parser, holding its whole frame with an accepted header LRC, has
\* dropped its first byte
C18_Witness ==
    /\ scen.type = "enum" /\ scen.frames[1].id = 186
    /\ scen.frames[1].payload[2] = 15
    /\ scen.stream = ParserFrame(scen.frames[1])
    /\ c_pc = "decoded" /\ ~c_decoded.ok
    /\ IsPrefix(scen.stream, last.pre) /\ last.skipped >= 1

\* Some run of consecutive bytes of q is a frame create_packet could have
\* built
HasValidFrame(q) ==
    \E i \in 1..Len(q) : \E j \in i..Len(q) : FrameValid(SubSeq(q, i, j))

\* C20: iterating an AnppReader over a finite byte source terminates: no
\* call panics and every next() that yields a packet leaves fewer bytes
\* buffered than it found buffered and read, so the packets run out and
\* next() returns None; when it has returned None every byte of the source
\* has been read; over an empty source the first next() returns None; and
\* over bytes containing no valid frame no packet is yielded.
C20_ReaderTerminates ==
    r_pc # "idle" =>
        /\ ret # "Panic"
        /\ ret = "Some" => Len(buf) < Len(last.pre)
        /\ r_pc = "ended" => pos = Len(scen.stream)
        /\ (scen.stream = <<>> /\ ret # "Init") => (r_pc = "ended" /\ emitted = <<>>)
        /\ ~HasValidFrame(scen.stream) => emitted = <<>>

\* C21: the framer and the stream parser agree on header validity: for a
\* frame built by create_packet, the LRC the parser recomputes from
\* (id, length, crc16) is the LRC byte create_packet wrote, so the parser's
\* header check accepts the frame.
C21_FramerParserLrcAgree ==
    (scen.type = "one" /\ ret # "Init" /\ last.pre = scen.stream) =>
        LET frame == scen.stream
        IN  /\ calculate_lrc(frame[2], frame[3], from_le_bytes(frame[4], frame[5]))
                  = frame[1]
            /\ parse_packet(frame, build).tag # "InvalidHeader"

\* The buffer b starts with a complete frame of a fixed-length kind whose
\* payload has the size of the kind's wire struct, whose CRC16 matches and
\* whose header LRC is valid both as create_packet writes it and as the
\* parser recomputes it
HeadValidFixed(b) ==
    /\ Len(b) >= 5
    /\ Len(b) >= 5 + b[3]
    /\ b[1] = header_lrc(b[2], b[3], from_le_bytes(b[4], b[5]))
    /\ b[1] = calculate_lrc(b[2], b[3], from_le_bytes(b[4], b[5]))
    /\ from_le_bytes(b[4], b[5]) = calculate_crc16(SubSeq(b, 6, 5 + b[3]))
    /\ PacketKind_from(b[2]) \notin {"Unsupported", "PacketsPeriod"}
    /\ b[3] = StructSize(PacketKind_from(b[2]))

\* C22: a frame with valid header LRC and CRC16, whose id names a supported
\* fixed-length kind and whose payload has that kind's encoded size, passes
\* the fixed-length check: consume returns it, without dropping a byte, as
\* the typed packet holding the field values encoded in the payload.
C22_FixedLengthFrameDecoded ==
    (ret # "Init" /\ HeadValidFixed(last.pre)) =>
        /\ ret = "Some"
        /\ last.skipped = 0
        /\ last.packet = from_bytes(last.pre[2], SubSeq(last.pre, 6, 5 + last.pre[3])).packet

\* C23: the parser computes the total frame length 5 + declared length
\* without wrap-around: while a head whose length byte is 251..255 has fewer
\* than 5 + length bytes buffered, the frame is treated as incomplete; the
\* call returns None, does not panic and keeps every byte.
C23_NoLengthWrap ==
    (/\ ret # "Init"
     /\ Len(last.pre) >= 5
     /\ last.pre[3] >= 251
     /\ Len(last.pre) < 256) =>
        /\ ret # "Panic"
        /\ ret = "None"
        /\ last.skipped = 0
        /\ Len(buf) = Len(last.pre)

\* C24: the parser never parses past a still-incomplete frame: whenever the
\* byte at index 2 of the buffer head declares a frame longer than what is
\* buffered, consume returns None without dropping a byte and without
\* emitting a frame located further back, whatever the head's LRC byte is.
C24_NoParsePastIncomplete ==
    (/\ ret # "Init"
     /\ Len(last.pre) >= 3
     /\ Len(last.pre) < 5 + last.pre[3]) =>
        /\ ret = "None"
        /\ last.skipped = 0
        /\ last.packet = NoPacket
        /\ buf = last.pre

\* C25: for every packet kind to which the registry assigns a fixed length,
\* that length is the number of bytes the kind's wire struct encodes to.
C25_RegistryLengthIsEncodedSize ==
    (c_pc \in {"encoded", "decoded"} /\ c_src = "value"
       /\ byte_length(c_packet.kind) # {}) =>
        byte_length(c_packet.kind) = {Len(c_bytes)}

\* Wire bytes of entry j of a PacketsPeriod value: packet_id, then the
\* period least significant byte first
EntryBytes(packet, j) == packet.data[2 * j + 1] \o Reverse(packet.data[2 * j + 2])

\* C26: a PacketsPeriodPacket with n entries encodes to exactly 2 + 5n
\* bytes, the permanent and clear_existing bytes followed by the entries in
\* list order, and decoding those bytes returns the same permanent,
\* clear_existing and entry list, for every n >= 0.
C26_PacketsPeriodRoundTrip ==
    (c_src = "value" /\ c_packet.kind = "PacketsPeriod") =>
        /\ c_pc \in {"encoded", "decoded"} =>
              /\ Len(c_bytes) = 2 + 5 * NumEntries(c_packet)
              /\ SubSeq(c_bytes, 1, 2) = c_packet.data[1] \o c_packet.data[2]
              /\ \A j \in 1..NumEntries(c_packet) :
                    SubSeq(c_bytes, 5 * j - 2, 5 * j + 2) = EntryBytes(c_packet, j)
        /\ c_pc = "decoded" => (c_decoded.ok /\ c_decoded.packet = c_packet)

\* A value with three entries has been encoded to 17 bytes and decoded back
C26_Witness ==
    /\ c_pc = "decoded" /\ c_src = "value" /\ c_packet.kind = "PacketsPeriod"
    /\ NumEntries(c_packet) = 3 /\ Len(c_bytes) = 17
    /\ c_packet.data[3] # c_packet.data[5]
    /\ c_decoded.packet = c_packet

\* C27: after next() has yielded a packet, a later next() reads from the
\* underlying reader only once the parser has returned None for an
\* empty-slice consume: packets already buffered are yielded first.
C27_DrainBeforeRead ==
    [][/\ (drain_internal /\ pos' # pos) => consume(buf, <<>>, build).ret = "None"
       /\ (drain_internal /\ consume(buf, <<>>, build).ret = "Some") =>
             (ret' = "Some" /\ last'.input = <<>>
                /\ last'.packet = consume(buf, <<>>, build).packet)
       /\ ret' \in {"Some", "None"} => drain_internal' = (ret' = "Some")]_vars

\* A next() made after a packet was yielded has found the parser drained,
\* then read further bytes from the source
C27_Witness ==
    /\ r_pc = "ended" /\ Len(emitted) >= 1 /\ ret = "None"
    /\ last.input # <<>> /\ last.before # <<>>

\* ------------------------------------------------------------------------
\* Properties of the filter status conversions (checked under SpecFlags)
\* ------------------------------------------------------------------------

FixBits(w) == (w \div 16) % 8

BitSet(w, bit) == (w \div bit) % 2 = 1

\* C28 (filter status word): for a filter-status word w the decoded GNSS
\* fix type is the variant numbered (w >> 4) & 7, every boolean field is
\* read from its own bit, converting the clean FilterStatus back gives w
\* again, and flipping one boolean field before converting back changes
\* that field's bit and nothing else, so never the fix-type bits.
C28_FilterStatusRoundTrip ==
    /\ fl_pc \in {"status", "toggled", "flags"} =>
          /\ gnss_fix_type(fl_word) = FixBits(fl_word)
          /\ fl_status.gnss_fix_type = GnssFixType[FixBits(fl_word) + 1]
          /\ \A f \in BoolFields \ {fl_toggled} :
                fl_status.flag[f] = BitSet(fl_word, BitOf(f))
    /\ (fl_pc = "flags" /\ fl_toggled = "") => fl_back = fl_word
    /\ (fl_pc = "flags" /\ fl_toggled # "") =>
          /\ FixBits(fl_back) = FixBits(fl_word)
          /\ fl_back = IF BitSet(fl_word, BitOf(fl_toggled))
                       THEN fl_word - BitOf(fl_toggled)
                       ELSE fl_word + BitOf(fl_toggled)

\* A word with fix type 5 and flags on both sides of the fix-type bits
\* went through both conversions after one field was flipped
C28_Witness ==
    /\ fl_pc = "flags" /\ fl_toggled = "event1_flag"
    /\ FixBits(fl_word) = 5 /\ fl_word > 32768 /\ fl_word % 16 = 9
    /\ fl_back = fl_word + 128

\* ------------------------------------------------------------------------
\* Properties of the clean API (checked under SpecKind)
\* ------------------------------------------------------------------------

KindOf(clean) ==
    IF "requested_packet" \in DOMAIN clean THEN clean.requested_packet
    ELSE clean.packet_type

\* C29 (clean API relabels ids): a Request or PacketPeriod naming a
\* supported kind K converts to a wire struct whose packet_id is K's
\* protocol id, and wire -> clean -> wire gives back the packet_id it
\* started from for every supported id.
C29_CleanApiRelabelsIds ==
    /\ (k_pc = "sent" /\ KindOf(k_clean) # "Unsupported") =>
          k_back.packet_id = packet_id_of(KindOf(k_clean))
    /\ (k_pc = "back" /\ k_wire.packet_id \in SupportedIds) =>
          k_back.packet_id = k_wire.packet_id

\* ------------------------------------------------------------------------
\* Properties of the parser's buffer (checked under SpecClear)
\* ------------------------------------------------------------------------

IsSuffix(p, q) ==
    Len(p) <= Len(q) /\ SubSeq(q, Len(q) - Len(p) + 1, Len(q)) = p

\* C30 (buffer is a suffix of what was fed): after any sequence of consume
\* and clear calls the buffer is a contiguous suffix of the bytes handed to
\* consume since the last clear, and right after clear buffer_len() is 0.
C30_BufferIsSuffixOfFed ==
    /\ IsSuffix(buf, fed)
    /\ ret = "Cleared" => buffer_len(buf) = 0

\* After a clear that threw bytes away, more bytes were fed, some of them
\* were drained from the front and some are still buffered
C30_Witness ==
    /\ ret \in {"None", "Some"}
    /\ Len(fed) < pos
    /\ buf # <<>> /\ Len(buf) < Len(fed)
    /\ last.skipped > 0

====
